---- MODULE Spec2Model ----
(***************************************************************************)
(* Snapchat Memories Organizer: the HTML extractor (MemoriesHTML), the     *)
(* date helpers, the worker thread (Worker.run) and the Tk application     *)
(* (App._on_start, App._on_cancel, App._pump) of the two variants          *)
(*   variant 1 = src/organize_memories_gui.py                              *)
(*   variant 2 = src/organize_memories_gui2.py                             *)
(* Text is modelled as sequences of one-character strings, so that regular *)
(* expression search, word boundaries and date formatting are computed.    *)
(***************************************************************************)
EXTENDS Integers, Sequences, FiniteSets, TLC

\* ------------------------------------------------------------------------
\* Bounds of the model
\* ------------------------------------------------------------------------
\* number of times the start control may be triggered in one behaviour
MaxRuns == 2

\* ------------------------------------------------------------------------
\* Characters and numbers
\* ------------------------------------------------------------------------
Digits == {"0", "1", "2", "3", "4", "5", "6", "7", "8", "9"}

\* characters that are not \w for the re module (everything else used in the
\* model is a letter, a digit or the underscore)
NonWord == {"-", ".", "/", "?", " ", ":"}

IsDigit(c) == c \in Digits

IsWord(c) == c \notin NonWord

DigitVal(c) ==
    CASE c = "0" -> 0 [] c = "1" -> 1 [] c = "2" -> 2 [] c = "3" -> 3
      [] c = "4" -> 4 [] c = "5" -> 5 [] c = "6" -> 6 [] c = "7" -> 7
      [] c = "8" -> 8 [] c = "9" -> 9

DigitChar(n) ==
    CASE n = 0 -> "0" [] n = 1 -> "1" [] n = 2 -> "2" [] n = 3 -> "3"
      [] n = 4 -> "4" [] n = 5 -> "5" [] n = 6 -> "6" [] n = 7 -> "7"
      [] n = 8 -> "8" [] n = 9 -> "9"

\* int("...") of a run of digits
RECURSIVE NumVal(_)
NumVal(s) ==
    IF s = << >> THEN 0
    ELSE 10 * NumVal(SubSeq(s, 1, Len(s) - 1)) + DigitVal(s[Len(s)])

\* zero padded decimal of width w (%02d, %04d)
RECURSIVE Pad(_, _)
Pad(n, w) ==
    IF w = 0 THEN << >>
    ELSE Pad(n \div 10, w - 1) \o <<DigitChar(n % 10)>>

\* str(n) for n >= 0
RECURSIVE Str(_)
Str(n) ==
    IF n < 10 THEN <<DigitChar(n)>>
    ELSE Str(n \div 10) \o <<DigitChar(n % 10)>>

Contains(s, c) == \E k \in 1..Len(s) : s[k] = c

\* s[a:b] of Python, 0-based half-open, clipped to the string
Slice(s, a, b) ==
    SubSeq(s, a + 1, IF b < Len(s) THEN b ELSE Len(s))

\* ------------------------------------------------------------------------
\* Calendar (datetime)
\* ------------------------------------------------------------------------
IsLeap(y) == (y % 4 = 0 /\ y % 100 # 0) \/ y % 400 = 0

DaysIn(y, m) ==
    IF m = 2 THEN (IF IsLeap(y) THEN 29 ELSE 28)
    ELSE IF m \in {4, 6, 9, 11} THEN 30 ELSE 31

\* the datetime constructor accepts exactly these
ValidYMD(y, m, d) ==
    /\ y \in 1..9999
    /\ m \in 1..12
    /\ d \in 1..DaysIn(y, m)

\* dt.strftime("%Y-%m-%d")
Strftime(y, m, d) == Pad(y, 4) \o <<"-">> \o Pad(m, 2) \o <<"-">> \o Pad(d, 2)

\* a parsed date or the ValueError of strptime
NoDate == [ok |-> FALSE, y |-> 0, m |-> 0, d |-> 0]

MkDate(y, m, d) ==
    IF ValidYMD(y, m, d) THEN [ok |-> TRUE, y |-> y, m |-> m, d |-> d]
    ELSE NoDate

AllDigits(s) == \A k \in 1..Len(s) : IsDigit(s[k])

\* the text has the shape dddd-dd-dd
ShapeYmd(s) ==
    /\ Len(s) = 10
    /\ AllDigits(SubSeq(s, 1, 4)) /\ s[5] = "-"
    /\ AllDigits(SubSeq(s, 6, 7)) /\ s[8] = "-"
    /\ AllDigits(SubSeq(s, 9, 10))

\* datetime.strptime(s, "%Y-%m-%d") on texts of the shape dddd-dd-dd; any
\* other text the model produces has fewer than four leading digits before
\* the first "-" and is rejected by %Y
StrptimeYmd(s) ==
    IF ShapeYmd(s)
    THEN MkDate(NumVal(SubSeq(s, 1, 4)), NumVal(SubSeq(s, 6, 7)),
                NumVal(SubSeq(s, 9, 10)))
    ELSE NoDate

\* datetime.strptime(s, "%m-%d-%Y") on texts of the shape dd-dd-dddd
StrptimeMdY(s) ==
    MkDate(NumVal(SubSeq(s, 7, 10)), NumVal(SubSeq(s, 1, 2)),
           NumVal(SubSeq(s, 4, 5)))

\* %y of strptime: 69..99 are 1969..1999, 00..68 are 2000..2068
Century(yy) == IF yy >= 69 THEN 1900 + yy ELSE 2000 + yy

\* datetime.strptime(s, "%y%m%d") on six digits
StrptimeyMD(s) ==
    MkDate(Century(NumVal(SubSeq(s, 1, 2))), NumVal(SubSeq(s, 3, 4)),
           NumVal(SubSeq(s, 5, 6)))

\* datetime.strptime(s, "%m%d%y") on six digits
StrptimeMDy(s) ==
    MkDate(Century(NumVal(SubSeq(s, 5, 6))), NumVal(SubSeq(s, 1, 2)),
           NumVal(SubSeq(s, 3, 4)))

\* the text is a real calendar date in canonical form
IsCanonical(s) == StrptimeYmd(s).ok

\* ------------------------------------------------------------------------
\* Regular expressions: \b<pattern>\b where the pattern is a sequence of
\* "d" (\d) and literal characters
\* ------------------------------------------------------------------------
\* DATE_RE of variant 1 and DATE_PATTERNS[0] of variant 2: \b\d{4}-\d{2}-\d{2}\b
PatYmd == <<"d", "d", "d", "d", "-", "d", "d", "-", "d", "d">>

\* \b\d{2}-\d{2}-\d{4}\b
PatMdY == <<"d", "d", "-", "d", "d", "-", "d", "d", "d", "d">>

\* \b\d{4}_\d{2}_\d{2}\b
PatYmdUnderscore == <<"d", "d", "d", "d", "_", "d", "d", "_", "d", "d">>

\* \b\d{8}\b
PatEight == <<"d", "d", "d", "d", "d", "d", "d", "d">>

\* \b\d{6}\b
PatSix == <<"d", "d", "d", "d", "d", "d">>

DATE_PATTERNS == <<PatYmd, PatMdY, PatYmdUnderscore, PatEight, PatSix>>

\* the word character test of \b at index k of s (outside the text: not a word)
WordAt(s, k) == k \in 1..Len(s) /\ IsWord(s[k])

\* \b between the characters k-1 and k
Boundary(s, k) == WordAt(s, k - 1) # WordAt(s, k)

ElemMatches(e, c) == IF e = "d" THEN IsDigit(c) ELSE c = e

\* the pattern matches at index p of s
MatchAt(pat, s, p) ==
    /\ p >= 1 /\ p + Len(pat) - 1 <= Len(s)
    /\ Boundary(s, p)
    /\ \A k \in 1..Len(pat) : ElemMatches(pat[k], s[p + k - 1])
    /\ Boundary(s, p + Len(pat))

\* re.search(pattern, s): m.group(0) of the leftmost match, << >> for None
Search(pat, s) ==
    LET hits == {p \in 1..Len(s) : MatchAt(pat, s, p)}
    IN  IF hits = {} THEN << >>
        ELSE LET p == CHOOSE q \in hits : \A r \in hits : q <= r
             IN  SubSeq(s, p, p + Len(pat) - 1)

\* re.match(r"\d{2}-\d{2}-\d{4}", s): anchored at the start, no \b
MatchMdYPrefix(s) ==
    /\ Len(s) >= 10
    /\ \A k \in 1..10 : ElemMatches(PatMdY[k], s[k])

\* date_str.replace("_", "-")
ReplaceUnderscore(s) == [k \in 1..Len(s) |-> IF s[k] = "_" THEN "-" ELSE s[k]]

\* ------------------------------------------------------------------------
\* Normalisation of a matched date text (variant 2, the body of the try block
\* of handle_data and of date_from_name): the canonical text, or << >> when a
\* ValueError is raised
\* ------------------------------------------------------------------------
Formatted(dt) == IF dt.ok THEN Strftime(dt.y, dt.m, dt.d) ELSE << >>

\* SixDigits with the two attempts exchanged
SixDigitsMdyFirst(s) ==
    IF StrptimeMDy(s).ok THEN StrptimeMDy(s) ELSE StrptimeyMD(s)

\* try %y%m%d, on ValueError %m%d%y
SixDigits(s) ==
    IF StrptimeyMD(s).ok THEN StrptimeyMD(s) ELSE StrptimeMDy(s)

\* Converted without the branch that leaves a YYYY-MM-DD text as it is
ConvertedNoPassThrough(s) ==
    IF Contains(s, "_") THEN ReplaceUnderscore(s)
    ELSE IF Len(s) = 8 /\ ~Contains(s, "-")
         THEN Slice(s, 0, 4) \o <<"-">> \o Slice(s, 4, 6) \o <<"-">> \o Slice(s, 6, 8)
    ELSE IF Len(s) = 6 THEN Formatted(SixDigits(s))
    ELSE IF MatchMdYPrefix(s) THEN Formatted(StrptimeMdY(s))
    ELSE << >>

Converted(s) ==
    IF Contains(s, "_") THEN ReplaceUnderscore(s)
    ELSE IF Len(s) = 8 /\ ~Contains(s, "-")
         THEN Slice(s, 0, 4) \o <<"-">> \o Slice(s, 4, 6) \o <<"-">> \o Slice(s, 6, 8)
    ELSE IF Len(s) = 6 THEN Formatted(SixDigits(s))
    ELSE IF MatchMdYPrefix(s) THEN Formatted(StrptimeMdY(s))
    ELSE s

Normalize(s) ==
    LET c == Converted(s)
    IN  IF c # << >> /\ StrptimeYmd(c).ok THEN c ELSE << >>

\* for pattern in DATE_PATTERNS: the first pattern whose leftmost match
\* normalises to a valid date; << >> when the loop ends without one
RECURSIVE FirstDate(_, _)
FirstDate(text, k) ==
    IF k > Len(DATE_PATTERNS) THEN << >>
    ELSE LET m == Search(DATE_PATTERNS[k], text)
             n == IF m = << >> THEN << >> ELSE Normalize(m)
         IN  IF n # << >> THEN n ELSE FirstDate(text, k + 1)

\* ------------------------------------------------------------------------
\* The HTML document as the event stream HTMLParser.feed delivers
\* ------------------------------------------------------------------------
StartMedia(tag, src) ==
    [t |-> "start", tag |-> tag, src |-> src, textline |-> FALSE, data |-> << >>]

\* <div class=...>; textline: the class attribute contains "text-line"
StartDiv(textline) ==
    [t |-> "start", tag |-> "div", src |-> << >>, textline |-> textline, data |-> << >>]

EndTag(tag) ==
    [t |-> "end", tag |-> tag, src |-> << >>, textline |-> FALSE, data |-> << >>]

Data(text) ==
    [t |-> "data", tag |-> "", src |-> << >>, textline |-> FALSE, data |-> text]

\* MemoriesHTML.__init__; last = 0 stands for _last_media_index = None,
\* otherwise last is the 1-based position of the item
ParserInit == [items |-> << >>, in_textline |-> FALSE, last |-> 0]

handle_starttag(ps, ev) ==
    IF ev.tag \in {"img", "video"}
    THEN IF ev.src # << >>
         THEN [ps EXCEPT !.items = Append(@, [src |-> ev.src, date |-> << >>]),
                         !.last = Len(ps.items) + 1]
         ELSE ps
    ELSE IF ev.tag = "div" /\ ev.textline
         THEN [ps EXCEPT !.in_textline = TRUE]
         ELSE ps

handle_endtag(ps, ev) ==
    IF ev.tag = "div" THEN [ps EXCEPT !.in_textline = FALSE] ELSE ps

\* variant 1: DATE_RE.search, the match is stored as it is
handle_data1(ps, ev) ==
    IF ev.data = << >> THEN ps
    ELSE IF ps.in_textline /\ ps.last # 0
         THEN LET m == Search(PatYmd, ev.data)
              IN  IF m # << >> THEN [ps EXCEPT !.items[ps.last].date = m] ELSE ps
         ELSE ps

\* variant 2: the first pattern that normalises to a valid date is stored
handle_data2(ps, ev) ==
    IF ps.in_textline /\ ps.last # 0
    THEN LET n == FirstDate(ev.data, 1)
         IN  IF n # << >> THEN [ps EXCEPT !.items[ps.last].date = n] ELSE ps
    ELSE ps

handle_data(v, ps, ev) == IF v = 1 THEN handle_data1(ps, ev) ELSE handle_data2(ps, ev)

Handle(v, ps, ev) ==
    IF ev.t = "start" THEN handle_starttag(ps, ev)
    ELSE IF ev.t = "end" THEN handle_endtag(ps, ev)
    ELSE handle_data(v, ps, ev)

\* the parser state ps after the events a..b, handled in their order: the
\* range is halved and the first half is evaluated before the second is
\* entered, which keeps the evaluation shallow on long documents
RECURSIVE FeedRange(_, _, _, _, _)
FeedRange(v, ps, events, a, b) ==
    IF a > b THEN ps
    ELSE IF a = b THEN Handle(v, ps, events[a])
    ELSE LET mid == (a + b) \div 2
             half == FeedRange(v, ps, events, a, mid)
         IN  IF half.last >= 0 THEN FeedRange(v, half, events, mid + 1, b)
             ELSE half

\* parser.feed(text): the parser state after the first k events
FeedUpTo(v, events, k) == FeedRange(v, ParserInit, events, 1, k)

\* parser.items after parser.feed(text)
ParseItems(v, events) == FeedUpTo(v, events, Len(events)).items

\* ------------------------------------------------------------------------
\* Paths
\* ------------------------------------------------------------------------
\* src.strip()
RECURSIVE Strip(_)
Strip(s) ==
    IF s = << >> THEN s
    ELSE IF s[1] = " " THEN Strip(Tail(s))
    ELSE IF s[Len(s)] = " " THEN Strip(SubSeq(s, 1, Len(s) - 1))
    ELSE s

StartsWith(s, pre) == Len(s) >= Len(pre) /\ SubSeq(s, 1, Len(pre)) = pre

\* s.split(c, 1)[0]
RECURSIVE Before(_, _)
Before(s, c) ==
    IF s = << >> \/ s[1] = c THEN << >>
    ELSE <<s[1]>> \o Before(Tail(s), c)

normalize_src(src) ==
    LET s == Strip(src)
        t == IF StartsWith(s, <<".", "/", "/">>) THEN Slice(s, 3, Len(s))
             ELSE IF StartsWith(s, <<".", "/">>) THEN Slice(s, 2, Len(s))
             ELSE s
    IN  Before(t, "?")

\* the components of a relative path, as pathlib keeps them: empty and "."
\* components are dropped
RECURSIVE Components(_)
Components(s) ==
    IF s = << >> THEN << >>
    ELSE LET head == Before(s, "/")
             rest == IF Len(head) = Len(s) THEN << >>
                     ELSE SubSeq(s, Len(head) + 2, Len(s))
         IN  IF head = << >> \/ head = <<".">> THEN Components(rest)
             ELSE <<head>> \o Components(rest)

\* Path(rel).name as a path below the base directory: base_dir / Path(rel).name
AltPath(rel) ==
    LET c == Components(rel)
    IN  IF c = << >> THEN << >> ELSE <<c[Len(c)]>>

\* the index of the last "." of a name, 0 when there is none
LastDot(name) ==
    LET dots == {k \in 1..Len(name) : name[k] = "."}
    IN  IF dots = {} THEN 0 ELSE CHOOSE k \in dots : \A j \in dots : j <= k

\* PurePath.suffix: from the last dot, unless the dot is first or last
Suffix(name) ==
    LET k == LastDot(name)
    IN  IF 1 < k /\ k < Len(name) THEN SubSeq(name, k, Len(name)) ELSE << >>

\* PurePath.stem
Stem(name) == SubSeq(name, 1, Len(name) - Len(Suffix(name)))

\* ------------------------------------------------------------------------
\* The export on disk: the directory of memories.html and its documents
\* ------------------------------------------------------------------------
JPG == <<".", "j", "p", "g">>

IMG_001 == <<"I", "M", "G", "_", "0", "0", "1">> \o JPG

Photo8 == <<"p", "h", "o", "t", "o", "_", "2", "0", "2", "2", "0", "7", "1", "4">> \o JPG

BadIso == <<"2", "0", "2", "3", "-", "1", "3", "-", "4", "5">>

BadIsoJpg == BadIso \o JPG

Iso0714 == <<"2", "0", "2", "2", "-", "0", "7", "-", "1", "4">>

Iso0714Mp4 == Iso0714 \o <<".", "m", "p", "4">>

Iso0501 == <<"2", "0", "2", "3", "-", "0", "5", "-", "0", "1">>

MissingJpg == <<"m", "i", "s", "s", "i", "n", "g">> \o JPG

DotSlash == <<".", "/">>

SubDir == <<"s", "u", "b">>

ClipMp4 == <<"c", "l", "i", "p", ".", "m", "p", "4">>

\* the regular files below the base directory, as component sequences
BaseFiles ==
    {<<IMG_001>>, <<Photo8>>, <<BadIsoJpg>>, <<Iso0714Mp4>>, <<SubDir, ClipMp4>>}

\* st_mtime of each file as a local date
Mtime(path) ==
    IF path = <<IMG_001>> THEN [y |-> 2021, m |-> 3, d |-> 9]
    ELSE IF path = <<Photo8>> THEN [y |-> 2024, m |-> 2, d |-> 29]
    ELSE IF path = <<SubDir, ClipMp4>> THEN [y |-> 2021, m |-> 3, d |-> 9]
    ELSE [y |-> 2020, m |-> 12, d |-> 31]

PNG == <<".", "p", "n", "g">>

\* the export also holds a regular file for every name that ends in .png
IsPng(path) == Len(path) = 1 /\ Suffix(path[1]) = PNG

\* Path.exists() below the base directory (the base directory itself exists)
SrcExists(path) == path = << >> \/ path \in BaseFiles \/ IsPng(path)

TextLine(text) == <<StartDiv(TRUE), Data(text), EndTag("div")>>

\* the example of the specification: the date container precedes the tag
DocDateFirst == TextLine(Iso0501) \o <<StartMedia("img", DotSlash \o IMG_001)>>

\* the layout the parser is written for: tag, then its date; one missing
\* file, and a second reference to the first file
DocExport ==
    <<StartMedia("img", DotSlash \o IMG_001)>> \o TextLine(Iso0501)
    \o <<StartMedia("img", DotSlash \o MissingJpg)>>
    \o <<StartMedia("img", <<" ">> \o IMG_001 \o <<"?", "v", "=", "2">>)>>
    \o TextLine(Iso0501)

\* no media reference: a tag without src and some text
DocNoMedia ==
    <<StartMedia("img", << >>), StartDiv(FALSE), Data(<<"h", "i">>), EndTag("div")>>

\* a hint that is no calendar date
DocBadHint == <<StartMedia("img", DotSlash \o IMG_001)>> \o TextLine(BadIso)

\* hint and file name disagree; the hint is surrounded by other text
DocDisagree ==
    <<StartMedia("video", <<".", "/", "/">> \o Iso0714Mp4)>>
    \o TextLine(<<"a", "t", " ">> \o Iso0501 \o <<" ", "1", "0", ":", "0", "0">>)

\* no hints: dates come from the file names or the file system
DocNames ==
    <<StartMedia("img", SubDir \o <<"/">> \o IMG_001),
      StartMedia("img", DotSlash \o BadIsoJpg),
      StartMedia("video", SubDir \o <<"/">> \o ClipMp4)>>

Docs == <<DocDateFirst, DocExport, DocNoMedia, DocBadHint, DocDisagree, DocNames>>

\* ------------------------------------------------------------------------
\* Further documents, for the runs that look at the extractor and the dates
\* ------------------------------------------------------------------------
\* two date containers after one media tag
DocTwoDates ==
    <<StartMedia("img", DotSlash \o IMG_001)>> \o TextLine(Iso0501) \o TextLine(Iso0714)

\* two text nodes in one date container
DocTwoNodes ==
    <<StartMedia("img", DotSlash \o IMG_001), StartDiv(TRUE), Data(Iso0501),
      StartMedia("br", << >>), Data(Iso0714), EndTag("div")>>

\* the date follows an inner div that is opened and closed in the container
DocNested ==
    <<StartMedia("img", DotSlash \o IMG_001), StartDiv(TRUE), StartDiv(FALSE),
      Data(<<"h", "i">>), EndTag("div"), Data(Iso0501), EndTag("div")>>

\* a date in a div that is no text-line container, and one after the
\* container was closed
DocOutside ==
    <<StartMedia("img", DotSlash \o IMG_001), StartDiv(FALSE), Data(Iso0501),
      EndTag("div"), StartDiv(TRUE), EndTag("div"), Data(Iso0714)>>

\* the file name example of the specification, no date text
DocPhoto == <<StartMedia("img", DotSlash \o Photo8)>>

\* three references to one file, no date text
DocThrice ==
    <<StartMedia("img", DotSlash \o IMG_001), StartMedia("img", IMG_001),
      StartMedia("img", DotSlash \o IMG_001)>>

A1Png == <<"a", "_", "1">> \o PNG

APng == <<"a">> \o PNG

\* a file whose own name is the first numbered name of the file after it
DocNumberedName ==
    <<StartMedia("img", A1Png), StartMedia("img", APng), StartMedia("img", APng)>>

ParseDocs ==
    <<DocTwoDates, DocTwoNodes, DocNested, DocOutside, DocPhoto, DocThrice,
      DocNumberedName>>

\* the two-digit fields the generated date texts are made of
Fields ==
    <<<<"0", "0">>, <<"0", "2">>, <<"1", "2">>, <<"2", "9">>, <<"3", "1">>, <<"6", "9">>>>

\* the formats of DATE_PATTERNS, in their order
Formats == <<"ymd", "mdy", "y_m_d", "eight", "six">>

\* where the date text stands: in the text-line container after the tag, as
\* the file name, or in the file name after "p_"
Places == <<"hint", "name", "uname">>

NumDateDocs == Len(Places) * Len(Formats) * Len(Fields) * Len(Fields) * Len(Fields)

\* the n-th generated date text, with its place and format
DateCase(n) ==
    LET k == Len(Fields)
        c == ((n - 1) % k) + 1
        b == (((n - 1) \div k) % k) + 1
        a == (((n - 1) \div (k * k)) % k) + 1
        f == (((n - 1) \div (k * k * k)) % Len(Formats)) + 1
        p == (((n - 1) \div (k * k * k * Len(Formats))) % Len(Places)) + 1
        A == Fields[a]
        B == Fields[b]
        C == Fields[c]
        XX == <<"2", "0">>
    IN  [place |-> Places[p],
         format |-> Formats[f],
         text |->
            IF Formats[f] = "ymd" THEN XX \o A \o <<"-">> \o B \o <<"-">> \o C
            ELSE IF Formats[f] = "mdy" THEN A \o <<"-">> \o B \o <<"-">> \o XX \o C
            ELSE IF Formats[f] = "y_m_d" THEN XX \o A \o <<"_">> \o B \o <<"_">> \o C
            ELSE IF Formats[f] = "eight" THEN XX \o A \o B \o C
            ELSE A \o B \o C]

\* the document that carries the n-th date text
DateDoc(n) ==
    LET dc == DateCase(n)
    IN  IF dc.place = "hint"
        THEN <<StartMedia("img", DotSlash \o IMG_001)>>
             \o TextLine(<<"o", "n", " ">> \o dc.text)
        ELSE IF dc.place = "name"
        THEN <<StartMedia("img", DotSlash \o dc.text \o PNG)>>
        ELSE <<StartMedia("img", <<"p", "_">> \o dc.text \o PNG)>>

ParseDocIds == (Len(Docs) + 1)..(Len(Docs) + Len(ParseDocs))

DateDocIds == (Len(Docs) + Len(ParseDocs) + 1)..(Len(Docs) + Len(ParseDocs) + NumDateDocs)

\* the number of a generated date document among the date documents
DateNo(h) == h - Len(Docs) - Len(ParseDocs)

\* ------------------------------------------------------------------------
\* Large documents, for the runs that look at the throttled progress lines
\* ------------------------------------------------------------------------
\* the numbers of media references of the large documents: around the
\* values where len(items) // 100 changes
Totals == <<1, 2, 3, 100, 150, 199, 200, 201, 250>>

\* where such a document refers to a file that does not exist
MissOptions == <<"none", "third", "last">>

TMP == <<".", "t", "m", "p">>

\* the n-th large document: references to 1.png, 2.png, ..., with one
\* reference to a file <k>.tmp that does not exist
ThrottleCase(n) ==
    [total |-> Totals[((n - 1) % Len(Totals)) + 1],
     miss |-> MissOptions[((n - 1) \div Len(Totals)) + 1]]

MissAt(tc) ==
    IF tc.miss = "third" THEN 3 ELSE IF tc.miss = "last" THEN tc.total ELSE 0

ThrottleDoc(n) ==
    LET tc == ThrottleCase(n)
    IN  [k \in 1..tc.total |->
            StartMedia("img", Str(k) \o (IF k = MissAt(tc) THEN TMP ELSE PNG))]

ThrottleDocIds ==
    (Len(Docs) + Len(ParseDocs) + NumDateDocs + 1)..
        (Len(Docs) + Len(ParseDocs) + NumDateDocs + Len(Totals) * Len(MissOptions))

ThrottleNo(h) == h - Len(Docs) - Len(ParseDocs) - NumDateDocs

\* html_path.read_text(): the document behind the value of html
Document(h) ==
    IF h <= Len(Docs) THEN Docs[h]
    ELSE IF h \in ParseDocIds THEN ParseDocs[h - Len(Docs)]
    ELSE IF h \in DateDocIds THEN DateDoc(DateNo(h))
    ELSE ThrottleDoc(ThrottleNo(h))

\* ------------------------------------------------------------------------
\* State
\* ------------------------------------------------------------------------
VARIABLES
    variant,      \* 1: organize_memories_gui.py, 2: organize_memories_gui2.py
    html,         \* html_var: the index in Docs of the chosen memories.html
    outFiles,     \* the regular files below the output root: path -> content
    outDirs,      \* the directories below the output root
    wpc,          \* the position of the worker thread
    items,        \* Worker.run: items
    i,            \* Worker.run: the index of the iteration about to start
    ok,           \* Worker.run: ok
    fail,         \* Worker.run: fail
    cancel_flag,  \* App.cancel_flag (threading.Event)
    ui_q,         \* App.ui_q (queue.Queue)
    btn_start,    \* state of the start button
    btn_cancel,   \* state of the cancel button
    pb_value,     \* value of the progress bar
    pb_max,       \* maximum of the progress bar
    runs,         \* number of runs started so far
    put,          \* history: the messages the current run has put
    outcomes      \* history: what the current run did with each item

vars ==
    <<variant, html, outFiles, outDirs, wpc, items, i, ok, fail, cancel_flag,
      ui_q, btn_start, btn_cancel, pb_value, pb_max, runs, put, outcomes>>

\* the values of wpc: no thread yet; reading and parsing the document; in the
\* item loop; returned after "done", after the cancellation note, after
\* "error"; ended by an exception that nothing caught
Alive == {"read", "loop"}

Ended == {"done", "cancelled", "error", "crashed"}

\* ------------------------------------------------------------------------
\* Messages of ui_q
\* ------------------------------------------------------------------------
Msg(kind, n, a, b, what) ==
    [kind |-> kind, n |-> n, ok |-> a, fail |-> b, what |-> what]

MetaMsg(total) == Msg("meta", total, 0, 0, "")

ProgressMsg(idx, what) == Msg("progress", idx, 0, 0, what)

\* ("log", "Cancelled. Success: {ok}, Failed: {fail}")
CancelMsg(a, b) == Msg("log", 0, a, b, "Cancelled")

\* ("done", "Finished. Success: {ok}, Failed: {fail} ...")
DoneMsg(a, b) == Msg("done", 0, a, b, "Finished")

ErrorMsg(what) == Msg("error", 0, 0, 0, what)

\* ------------------------------------------------------------------------
\* Worker.run: the steps of one iteration
\* ------------------------------------------------------------------------
\* Resolve without the second look-up by the last component
ResolveNoFallback(src) ==
    LET first == Components(normalize_src(src))
    IN  [found |-> SrcExists(first), path |-> first]

\* src_path after the two look-ups; << >> with found = FALSE when both fail
Resolve(src) ==
    LET rel == normalize_src(src)
        first == Components(rel)
        alt == AltPath(rel)
    IN  IF SrcExists(first) THEN [found |-> TRUE, path |-> first]
        ELSE IF SrcExists(alt) THEN [found |-> TRUE, path |-> alt]
        ELSE [found |-> FALSE, path |-> first]

\* src_path.name
Name(path) == IF path = << >> THEN << >> ELSE path[Len(path)]

date_from_name(v, name) ==
    IF v = 1 THEN Search(PatYmd, name) ELSE FirstDate(name, 1)

fallback_date_from_fs(path) == Strftime(Mtime(path).y, Mtime(path).m, Mtime(path).d)

\* it.get("date") or date_from_name(src_path): << >> when both are empty
HintOrName(v, it, path) ==
    IF it.date # << >> THEN it.date ELSE date_from_name(v, Name(path))

\* variant 2 validates date_str again; variant 1 does not
Revalidates(v) == v = 2

\* fallback_date_from_fs is called: by the "or" chain, or by the except branch
NeedsStat(v, it, path) ==
    \/ HintOrName(v, it, path) = << >>
    \/ Revalidates(v) /\ ~StrptimeYmd(HintOrName(v, it, path)).ok

\* date_str as used for the destination
DateStr(v, it, path) ==
    IF NeedsStat(v, it, path) THEN fallback_date_from_fs(path)
    ELSE HintOrName(v, it, path)

\* TgtDir with the month alone as the second directory
TgtDirMonthOnly(date_str) == <<Slice(date_str, 0, 4), Slice(date_str, 5, 7)>>

\* tgt_dir below the output root
TgtDir(date_str) == <<Slice(date_str, 0, 4), Slice(date_str, 0, 7)>>

\* base_name
BaseName(date_str, path) == date_str \o <<"_">> \o Name(path)

\* Numbered with the number appended after the extension
NumberedAtEnd(base_name, sfx) == base_name \o <<"_">> \o Str(sfx)

Numbered(base_name, sfx) ==
    Stem(base_name) \o <<"_">> \o Str(sfx) \o Suffix(base_name)

\* the loop "while target.exists()" entered with the candidate numbered sfx
RECURSIVE Probe(_, _, _, _)
Probe(files, dir, base_name, sfx) ==
    LET target == Append(dir, Numbered(base_name, sfx))
    IN  IF target \in DOMAIN files THEN Probe(files, dir, base_name, sfx + 1)
        ELSE target

\* FreeTarget without the collision loop
FreeTargetNoProbe(files, dir, base_name) == Append(dir, base_name)

\* target after the collision loop
FreeTarget(files, dir, base_name) ==
    IF Append(dir, base_name) \in DOMAIN files THEN Probe(files, dir, base_name, 1)
    ELSE Append(dir, base_name)

\* update_interval
UpdateInterval(n) == IF n \div 100 > 1 THEN n \div 100 ELSE 1

\* Emits without the test "i == len(items)"
EmitsNotForLast(v, idx, n) ==
    \/ v = 1
    \/ idx % UpdateInterval(n) = 0 \/ idx = 1

\* whether the progress message of a success or of a missing file is put
Emits(v, idx, n) ==
    \/ v = 1
    \/ idx % UpdateInterval(n) = 0 \/ idx = n \/ idx = 1

\* what the operating system may answer to mkdir and to copy2
MkdirResults == {"ok", "oserror", "oserror_inner"}

CopyResults == {"ok", "ioerror", "ioerror_partial", "error"}

\* ------------------------------------------------------------------------
\* Initial state: App.__init__, with a document and an output folder chosen
\* ------------------------------------------------------------------------
NoFiles == [p \in {} |-> 0]

Init ==
    /\ variant \in {1, 2}
    /\ html \in 1..Len(Docs)
    /\ outFiles = NoFiles
    /\ outDirs = {}
    /\ wpc = "none"
    /\ items = << >>
    /\ i = 0
    /\ ok = 0
    /\ fail = 0
    /\ cancel_flag = FALSE
    /\ ui_q = << >>
    /\ btn_start = "normal"
    /\ btn_cancel = "disabled"
    /\ pb_value = 0
    /\ pb_max = 100
    /\ runs = 0
    /\ put = << >>
    /\ outcomes = << >>

\* ui_q.put(msg); put is its history for the current run
Put(msg) ==
    /\ ui_q' = Append(ui_q, msg)
    /\ put' = Append(put, msg)

\* ------------------------------------------------------------------------
\* App._on_start (the button invokes it only while it is enabled)
\* ------------------------------------------------------------------------
\* OnStart without self.cancel_flag.clear()
OnStartKeepsFlag ==
    /\ btn_start = "normal"
    /\ runs < MaxRuns
    /\ wpc' = "read"
    /\ items' = << >>
    /\ i' = 0
    /\ ok' = 0
    /\ fail' = 0
    /\ btn_start' = "disabled"
    /\ btn_cancel' = "normal"
    /\ pb_value' = 0
    /\ pb_max' = 1
    /\ runs' = runs + 1
    /\ put' = << >>
    /\ outcomes' = << >>
    /\ UNCHANGED <<variant, html, outFiles, outDirs, ui_q, cancel_flag>>

OnStart ==
    /\ btn_start = "normal"
    /\ runs < MaxRuns
    /\ cancel_flag' = FALSE
    /\ wpc' = "read"
    /\ items' = << >>
    /\ i' = 0
    /\ ok' = 0
    /\ fail' = 0
    /\ btn_start' = "disabled"
    /\ btn_cancel' = "normal"
    /\ pb_value' = 0
    /\ pb_max' = 1
    /\ runs' = runs + 1
    /\ put' = << >>
    /\ outcomes' = << >>
    /\ UNCHANGED <<variant, html, outFiles, outDirs, ui_q>>

\* ------------------------------------------------------------------------
\* App._on_cancel (the button invokes it only while it is enabled)
\* ------------------------------------------------------------------------
OnCancel ==
    /\ btn_cancel = "normal"
    /\ wpc \in Alive
    /\ ~cancel_flag
    /\ cancel_flag' = TRUE
    /\ UNCHANGED <<variant, html, outFiles, outDirs, wpc, items, i, ok, fail,
                   ui_q, btn_start, btn_cancel, pb_value, pb_max, runs, put,
                   outcomes>>

\* ------------------------------------------------------------------------
\* App._pump: one turn of its loop, for the message at the head of the queue
\* ------------------------------------------------------------------------
\* the buttons after a message of this kind has been handled
StartAfter(kind, cur) == IF kind \in {"done", "error"} THEN "normal" ELSE cur

CancelAfter(kind, cur) == IF kind \in {"done", "error"} THEN "disabled" ELSE cur

\* Pump that takes the newest message of the queue, not the oldest
PumpNewestFirst ==
    /\ ui_q # << >>
    /\ LET msg == ui_q[Len(ui_q)]
       IN  /\ ui_q' = SubSeq(ui_q, 1, Len(ui_q) - 1)
           /\ btn_start' = StartAfter(msg.kind, btn_start)
           /\ btn_cancel' = CancelAfter(msg.kind, btn_cancel)
           /\ pb_value' = IF msg.kind = "meta" THEN 0
                          ELSE IF msg.kind = "progress" THEN msg.n
                          ELSE pb_value
           /\ pb_max' = IF msg.kind = "meta"
                        THEN (IF msg.n > 1 THEN msg.n ELSE 1)
                        ELSE pb_max
    /\ UNCHANGED <<variant, html, outFiles, outDirs, wpc, items, i, ok, fail,
                   cancel_flag, runs, put, outcomes>>

Pump ==
    /\ ui_q # << >>
    /\ LET msg == Head(ui_q)
       IN  /\ ui_q' = Tail(ui_q)
           /\ btn_start' = StartAfter(msg.kind, btn_start)
           /\ btn_cancel' = CancelAfter(msg.kind, btn_cancel)
           /\ pb_value' = IF msg.kind = "meta" THEN 0
                          ELSE IF msg.kind = "progress" THEN msg.n
                          ELSE pb_value
           /\ pb_max' = IF msg.kind = "meta"
                        THEN (IF msg.n > 1 THEN msg.n ELSE 1)
                        ELSE pb_max
    /\ UNCHANGED <<variant, html, outFiles, outDirs, wpc, items, i, ok, fail,
                   cancel_flag, runs, put, outcomes>>

\* ------------------------------------------------------------------------
\* Worker.run: reading and parsing the document
\* ------------------------------------------------------------------------
Encodings == <<"utf-8", "latin-1", "cp1252", "iso-8859-1">>

\* read_text(encoding=enc) raises no UnicodeDecodeError: latin-1 decodes
\* every byte sequence, utf-8 only valid ones
Decodes(enc, utf8ok) == enc # "utf-8" \/ utf8ok

\* "text" when the document is read, "error" when the run ends with an error
\* message. osok: the file can be opened and read
ReadText(v, osok, utf8ok) ==
    IF ~osok THEN "error"
    ELSE IF v = 1 THEN "text"
    ELSE IF \E k \in 1..Len(Encodings) : Decodes(Encodings[k], utf8ok) THEN "text"
    ELSE "error"

\* AfterRead with the meta message put before the items are looked at
AfterReadMetaFirst(res, parsed) ==
    IF res = "error" THEN [pc |-> "error", msgs |-> <<ErrorMsg("read")>>]
    ELSE IF parsed = << >>
         THEN [pc |-> "error", msgs |-> <<MetaMsg(0), ErrorMsg("no media")>>]
    ELSE [pc |-> "loop", msgs |-> <<MetaMsg(Len(parsed))>>]

\* where run goes after reading and parsing, and the messages it puts there:
\* res is the result of ReadText, parsed the items of the parser
AfterRead(res, parsed) ==
    IF res = "error" THEN [pc |-> "error", msgs |-> <<ErrorMsg("read")>>]
    ELSE IF parsed = << >>
         THEN [pc |-> "error", msgs |-> <<ErrorMsg("no media")>>]
    ELSE [pc |-> "loop", msgs |-> <<MetaMsg(Len(parsed))>>]

WorkerRead ==
    /\ wpc = "read"
    /\ \E osok \in BOOLEAN, utf8ok \in BOOLEAN :
          LET res == ReadText(variant, osok, utf8ok)
              parsed == IF res = "error" THEN << >>
                        ELSE ParseItems(variant, Document(html))
              next == AfterRead(res, parsed)
          IN  /\ ui_q' = ui_q \o next.msgs
              /\ put' = put \o next.msgs
              /\ wpc' = next.pc
              /\ items' = IF next.pc = "loop" THEN parsed ELSE items
              /\ i' = IF next.pc = "loop" THEN 1 ELSE i
    /\ UNCHANGED <<variant, html, outFiles, outDirs, ok, fail, cancel_flag,
                   btn_start, btn_cancel, pb_value, pb_max, runs, outcomes>>

\* ------------------------------------------------------------------------
\* Worker.run: one iteration of the item loop, one action per way through it
\* ------------------------------------------------------------------------
AtItem == wpc = "loop" /\ i <= Len(items)

Outcome(idx, kind, src, date, target) ==
    [idx |-> idx, kind |-> kind, src |-> src, date |-> date, target |-> target]

\* WorkerCancelled with "continue" in the place of "return"
WorkerCancelledContinues ==
    /\ AtItem
    /\ cancel_flag
    /\ Put(CancelMsg(ok, fail))
    /\ i' = i + 1
    /\ UNCHANGED <<variant, html, outFiles, outDirs, wpc, items, ok, fail,
                   cancel_flag, btn_start, btn_cancel, pb_value, pb_max, runs,
                   outcomes>>

\* the cancellation flag is seen set at the top of the iteration
WorkerCancelled ==
    /\ AtItem
    /\ cancel_flag
    /\ Put(CancelMsg(ok, fail))
    /\ wpc' = "cancelled"
    /\ UNCHANGED <<variant, html, outFiles, outDirs, items, i, ok, fail,
                   cancel_flag, btn_start, btn_cancel, pb_value, pb_max, runs,
                   outcomes>>

\* neither look-up finds the file
WorkerMissing ==
    /\ AtItem
    /\ ~cancel_flag
    /\ ~Resolve(items[i].src).found
    /\ fail' = fail + 1
    /\ IF Emits(variant, i, Len(items))
       THEN Put(ProgressMsg(i, "MISSING"))
       ELSE UNCHANGED <<ui_q, put>>
    /\ outcomes' = Append(outcomes, Outcome(i, "missing", << >>, << >>, << >>))
    /\ i' = i + 1
    /\ UNCHANGED <<variant, html, outFiles, outDirs, wpc, items, ok,
                   cancel_flag, btn_start, btn_cancel, pb_value, pb_max, runs>>

\* path.stat() raises in fallback_date_from_fs: nothing catches it
WorkerStatFails ==
    /\ AtItem
    /\ ~cancel_flag
    /\ Resolve(items[i].src).found
    /\ NeedsStat(variant, items[i], Resolve(items[i].src).path)
    /\ wpc' = "crashed"
    /\ UNCHANGED <<variant, html, outFiles, outDirs, items, i, ok, fail,
                   cancel_flag, ui_q, btn_start, btn_cancel, pb_value, pb_max,
                   runs, put, outcomes>>

\* the directories mkdir(parents=True, exist_ok=True) leaves behind
DirsAfter(dirs, dir, res) ==
    IF res = "ok" THEN dirs \cup {<<dir[1]>>, dir}
    ELSE IF res = "oserror_inner" THEN dirs \cup {<<dir[1]>>}
    ELSE dirs

\* tgt_dir.mkdir raises: nothing catches it
WorkerMkdirFails ==
    /\ AtItem
    /\ ~cancel_flag
    /\ Resolve(items[i].src).found
    /\ LET path == Resolve(items[i].src).path
           dir == TgtDir(DateStr(variant, items[i], path))
       IN  \E res \in MkdirResults \ {"ok"} :
              /\ dir \notin outDirs
              /\ outDirs' = DirsAfter(outDirs, dir, res)
    /\ wpc' = "crashed"
    /\ UNCHANGED <<variant, html, outFiles, items, i, ok, fail, cancel_flag,
                   ui_q, btn_start, btn_cancel, pb_value, pb_max, runs, put,
                   outcomes>>

\* the files after shutil.copy2(src_path, target) ended with res
FilesAfter(files, target, path, res) ==
    IF res = "ok" THEN (target :> [src |-> path, whole |-> TRUE]) @@ files
    ELSE IF res = "ioerror_partial"
         THEN (target :> [src |-> path, whole |-> FALSE]) @@ files
    ELSE files

\* the text of the progress line after copy2 ended with res
CopyLine(v, res) ==
    IF res = "ok" THEN "OK"
    ELSE IF v = 2 /\ res \in {"ioerror", "ioerror_partial"} THEN "IO ERROR"
    ELSE "ERROR"

\* the date is determined, the directory made and the copy attempted
WorkerCopy ==
    /\ AtItem
    /\ ~cancel_flag
    /\ Resolve(items[i].src).found
    /\ LET path == Resolve(items[i].src).path
           date_str == DateStr(variant, items[i], path)
           dir == TgtDir(date_str)
           target == FreeTarget(outFiles, dir, BaseName(date_str, path))
       IN  \E res \in CopyResults :
              /\ outDirs' = DirsAfter(outDirs, dir, "ok")
              /\ outFiles' = FilesAfter(outFiles, target, path, res)
              /\ ok' = IF res = "ok" THEN ok + 1 ELSE ok
              /\ fail' = IF res = "ok" THEN fail ELSE fail + 1
              /\ IF res # "ok" \/ Emits(variant, i, Len(items))
                 THEN Put(ProgressMsg(i, CopyLine(variant, res)))
                 ELSE UNCHANGED <<ui_q, put>>
              /\ outcomes' = Append(outcomes,
                     Outcome(i, IF res = "ok" THEN "ok" ELSE "fail", path,
                             date_str, target))
    /\ i' = i + 1
    /\ UNCHANGED <<variant, html, wpc, items, cancel_flag, btn_start,
                   btn_cancel, pb_value, pb_max, runs>>

\* the loop is exhausted
WorkerFinish ==
    /\ wpc = "loop"
    /\ i > Len(items)
    /\ Put(DoneMsg(ok, fail))
    /\ wpc' = "done"
    /\ UNCHANGED <<variant, html, outFiles, outDirs, items, i, ok, fail,
                   cancel_flag, btn_start, btn_cancel, pb_value, pb_max, runs,
                   outcomes>>

Next ==
    \/ OnStart
    \/ OnCancel
    \/ Pump
    \/ WorkerRead
    \/ WorkerCancelled
    \/ WorkerMissing
    \/ WorkerStatFails
    \/ WorkerMkdirFails
    \/ WorkerCopy
    \/ WorkerFinish

Spec == Init /\ [][Next]_vars

\* ------------------------------------------------------------------------
\* One run over a document of ParseDocs or a generated date document: the
\* user starts once and does not cancel, and the window's polling, which
\* takes no part in what the worker extracts and copies, is left out.  The
\* generated date texts exercise DATE_PATTERNS, which only variant 2 has.
\* ------------------------------------------------------------------------
InitDates ==
    /\ \/ html \in ParseDocIds /\ variant \in {1, 2}
       \/ html \in DateDocIds /\ variant = 2
    /\ outFiles = NoFiles
    /\ outDirs = {}
    /\ wpc = "none"
    /\ items = << >>
    /\ i = 0
    /\ ok = 0
    /\ fail = 0
    /\ cancel_flag = FALSE
    /\ ui_q = << >>
    /\ btn_start = "normal"
    /\ btn_cancel = "disabled"
    /\ pb_value = 0
    /\ pb_max = 100
    /\ runs = 0
    /\ put = << >>
    /\ outcomes = << >>

StartOnce == runs = 0 /\ OnStart

NextDates ==
    \/ StartOnce
    \/ WorkerRead
    \/ WorkerStatFails
    \/ WorkerMkdirFails
    \/ WorkerCopy
    \/ WorkerFinish

SpecDates == InitDates /\ [][NextDates]_vars

\* ------------------------------------------------------------------------
\* One run of variant 2 over a large document: nobody cancels, stat and
\* mkdir succeed, and copy2 can fail for the third and for the last item
\* only.
\* ------------------------------------------------------------------------
InitThrottle ==
    /\ variant = 2
    /\ html \in ThrottleDocIds
    /\ outFiles = NoFiles
    /\ outDirs = {}
    /\ wpc = "none"
    /\ items = << >>
    /\ i = 0
    /\ ok = 0
    /\ fail = 0
    /\ cancel_flag = FALSE
    /\ ui_q = << >>
    /\ btn_start = "normal"
    /\ btn_cancel = "disabled"
    /\ pb_value = 0
    /\ pb_max = 100
    /\ runs = 0
    /\ put = << >>
    /\ outcomes = << >>

CopyFaultsAt == {3, Len(items)}

CopySomeFail == WorkerCopy /\ (ok' = ok + 1 \/ i \in CopyFaultsAt)

\* the window consumes the messages once the worker has ended (the order of
\* consumption does not depend on when the window polls)
Drain == wpc \in Ended /\ Pump

NextThrottle ==
    \/ StartOnce
    \/ WorkerRead
    \/ WorkerMissing
    \/ CopySomeFail
    \/ WorkerFinish
    \/ Drain

SpecThrottle == InitThrottle /\ [][NextThrottle]_vars

\* ------------------------------------------------------------------------
\* Properties
\* ------------------------------------------------------------------------
\* a message that ends a run for the presentation layer
Terminal(m) == m.kind \in {"done", "error"} \/ (m.kind = "log" /\ m.what = "Cancelled")

TerminalCount(msgs) == Cardinality({k \in 1..Len(msgs) : Terminal(msgs[k])})

\* C1: every run that has ended, on whatever path, has put exactly one
\* terminal message (done, the cancellation note or error) and that message
\* is the last one it put; a run still going has put none.
C1_OneTerminalMessage ==
    /\ wpc \in Ended =>
          /\ put # << >>
          /\ Terminal(put[Len(put)])
          /\ TerminalCount(put) = 1
    /\ wpc \in Alive => TerminalCount(put) = 0

\* C2: once a run has ended as completed, cancelled or with a fatal error and
\* the pump has drained the queue, the start button is enabled and the cancel
\* button is disabled.
C2_ControlsRestored ==
    (wpc \in {"done", "cancelled", "error"} /\ ui_q = << >>) =>
        (btn_start = "normal" /\ btn_cancel = "disabled")

\* the outcomes of the current run that are successful copies
Copied == {k \in 1..Len(outcomes) : outcomes[k].kind = "ok"}

\* every file that exists keeps its path and its content in the next state
NothingOverwritten ==
    \A p \in DOMAIN outFiles : p \in DOMAIN outFiles' /\ outFiles'[p] = outFiles[p]

\* a successful copy has just been made: its target was free before
CopyWentToFreePath ==
    (Len(outcomes') = Len(outcomes) + 1 /\ outcomes'[Len(outcomes')].kind = "ok") =>
        /\ outcomes'[Len(outcomes')].target \notin DOMAIN outFiles
        /\ outcomes'[Len(outcomes')].target \in DOMAIN outFiles'
        /\ outFiles'[outcomes'[Len(outcomes')].target].src = outcomes'[Len(outcomes')].src

\* C3: a successful copy writes to a path that did not exist just before it;
\* no two successful copies of a run share a destination, and no file that is
\* already below the output root (from an earlier item or an earlier run) is
\* overwritten or removed.
C3_NoOverwrite ==
    /\ [](\A j \in Copied, k \in Copied :
              j # k => outcomes[j].target # outcomes[k].target)
    /\ [][NothingOverwritten /\ CopyWentToFreePath]_vars

\* C3 witness: two successful copies of one run of the same file under the
\* same date, in a second run, so files of the earlier run are in the way too.
C3_Witness ==
    /\ runs = 2
    /\ \E j \in Copied, k \in Copied :
          /\ j < k
          /\ outcomes[j].src = outcomes[k].src
          /\ outcomes[j].date = outcomes[k].date

\* C4: at the top of iteration i, succeeded + failed = i - 1; a run with at
\* least one reference that is not cancelled processes every reference and
\* ends with "done" whose totals add up to the number of references, whatever
\* fails for a single item.
C4_AllItemsCounted ==
    /\ wpc = "loop" => ok + fail = i - 1
    /\ (wpc \in Ended /\ wpc # "cancelled" /\ items # << >>) =>
          /\ wpc = "done"
          /\ Len(outcomes) = Len(items)
          /\ put[Len(put)].kind = "done"
          /\ put[Len(put)].ok + put[Len(put)].fail = Len(items)

\* the cancellation note has been put by the current run
NotePut == \E k \in 1..Len(put) : put[k].kind = "log"

\* C5: when the worker sees the flag set before item N+1, the note it puts
\* reports succeeded + failed = N with N < M, it is the last message of the
\* run, and from then on the run handles no item and writes nothing below the
\* output root: the files copied before stay as they are.
C5_CancelStopsWrites ==
    /\ [](NotePut =>
             /\ put[Len(put)].kind = "log"
             /\ put[Len(put)].ok + put[Len(put)].fail = Len(outcomes)
             /\ put[Len(put)].ok = Cardinality(Copied)
             /\ Len(outcomes) < Len(items))
    /\ [][(NotePut /\ runs' = runs) =>
             /\ outFiles' = outFiles
             /\ outDirs' = outDirs
             /\ outcomes' = outcomes
             /\ put' = put]_vars

\* C5 witness: a run cancelled after it copied at least one file, with items
\* left over.
C5_Witness ==
    /\ wpc = "cancelled"
    /\ NotePut
    /\ Cardinality(Copied) >= 1
    /\ fail >= 1
    /\ \E p \in DOMAIN outFiles : outFiles[p].whole

\* the outcomes of the current run whose source file was found
Found == {k \in 1..Len(outcomes) : outcomes[k].kind # "missing"}

\* the date the file name carries, when it is a real calendar date
ValidNameDate(v, name) ==
    IF IsCanonical(date_from_name(v, name)) THEN date_from_name(v, name) ELSE << >>

\* C6: for every item whose file exists the date is the hint if one was
\* attached, otherwise the first valid date of the file name, otherwise the
\* last-modified date of the file.
C6_DatePriority ==
    \A k \in Found :
        LET hint == items[outcomes[k].idx].date
            named == ValidNameDate(variant, Name(outcomes[k].src))
        IN  /\ hint # << >> => outcomes[k].date = hint
            /\ (hint = << >> /\ named # << >>) => outcomes[k].date = named
            /\ (hint = << >> /\ named = << >>) =>
                   outcomes[k].date = fallback_date_from_fs(outcomes[k].src)

\* C7: the date that builds a destination directory and file name is a real
\* calendar date in canonical form, in both variants.
C7_CopyDateIsCalendarDate ==
    \A k \in Found :
        /\ IsCanonical(outcomes[k].date)
        /\ outcomes[k].target[1] = Slice(outcomes[k].date, 0, 4)
        /\ outcomes[k].target[2] = Slice(outcomes[k].date, 0, 7)

\* the number of media tags of a document that carry a source
MediaCount(doc) ==
    Cardinality({k \in 1..Len(doc) :
        doc[k].t = "start" /\ doc[k].tag \in {"img", "video"} /\ doc[k].src # << >>})

ErrorPut == \E k \in 1..Len(put) : put[k].kind = "error"

ExistsEitherWay(src) ==
    \/ SrcExists(Components(normalize_src(src)))
    \/ SrcExists(AltPath(normalize_src(src)))

\* the step handled one more item and found it missing
MissingStep ==
    /\ Len(outcomes') = Len(outcomes) + 1
    /\ outcomes'[Len(outcomes')].kind = "missing"

\* C9: an item is Missing exactly when neither the normalised reference below
\* the base directory nor its last component directly in the base directory
\* exists; a Missing item adds one to the failed count, writes nothing below
\* the output root, and the run goes on with the next item.
C9_MissingIsNonFatal ==
    /\ [](\A k \in 1..Len(outcomes) :
             /\ outcomes[k].idx = k
             /\ outcomes[k].kind = "missing" <=> ~ExistsEitherWay(items[k].src))
    /\ [][MissingStep =>
             /\ fail' = fail + 1
             /\ ok' = ok
             /\ outFiles' = outFiles
             /\ outDirs' = outDirs
             /\ wpc' = "loop"
             /\ i' = i + 1]_vars

\* C9 witness: a missing item was counted and a later item of the same run
\* was copied.
C9_Witness ==
    /\ \E j \in 1..Len(outcomes), k \in Copied :
          j < k /\ outcomes[j].kind = "missing"
    /\ fail >= 1

\* event k of the document is a media tag right after a text-line container
\* that holds a date
DatedBefore(doc, k) ==
    /\ k >= 4
    /\ doc[k].t = "start" /\ doc[k].tag \in {"img", "video"} /\ doc[k].src # << >>
    /\ doc[k - 1] = EndTag("div")
    /\ doc[k - 2].t = "data" /\ FirstDate(doc[k - 2].data, 1) # << >>
    /\ doc[k - 3] = StartDiv(TRUE)

\* the position among the items of the media tag at event k
ItemOf(doc, k) == MediaCount(SubSeq(doc, 1, k))

\* C10: a date in a text-line container right before a media tag becomes the
\* hint of that media reference, and the file is copied under that date.
C10_PrecedingDateIsHint ==
    wpc \in {"loop", "done", "cancelled", "crashed"} =>
        \A k \in 1..Len(Document(html)) :
            DatedBefore(Document(html), k) =>
                /\ items[ItemOf(Document(html), k)].date = FirstDate(Document(html)[k - 2].data, 1)
                /\ \A j \in Found :
                      outcomes[j].idx = ItemOf(Document(html), k) =>
                          outcomes[j].date = FirstDate(Document(html)[k - 2].data, 1)

\* the eight digits yyyymmdd read as a date
EightAsDate(s) ==
    MkDate(NumVal(SubSeq(s, 1, 4)), NumVal(SubSeq(s, 5, 6)), NumVal(SubSeq(s, 7, 8)))

\* the places of a name where an underscore is followed by exactly eight
\* digits that are a calendar date, as in photo_20220714.jpg
UnderscoreEight(name) ==
    {p \in 1..Len(name) :
        /\ name[p] = "_"
        /\ p + 8 <= Len(name)
        /\ AllDigits(SubSeq(name, p + 1, p + 8))
        /\ ~(p + 9 <= Len(name) /\ IsDigit(name[p + 9]))
        /\ EightAsDate(SubSeq(name, p + 1, p + 8)).ok}

\* C11: in variant 2 an item without hint whose file name carries a valid
\* date of eight digits after an underscore gets that date, in canonical
\* form, from date_from_name and is filed under it, not under the
\* last-modified date.
C11_UnderscoreEightDigits ==
    \A k \in Found :
        LET name == Name(outcomes[k].src)
        IN  (variant = 2 /\ items[outcomes[k].idx].date = << >>
                /\ UnderscoreEight(name) # {}) =>
                \E p \in UnderscoreEight(name) :
                    LET d == Formatted(EightAsDate(SubSeq(name, p + 1, p + 8)))
                    IN  /\ date_from_name(2, name) = d
                        /\ outcomes[k].date = d

\* the hints the extractor holds after the first k events of the document
HintsAfter(k) == FeedUpTo(variant, Document(html), k).items

\* C12: a hint that is attached to a media reference is not changed by any
\* later text: the hint a reference has at some point of the document is the
\* hint the worker finds on the extracted item.
C12_HintSetOnce ==
    (wpc \in {"loop", "done", "cancelled", "crashed"} /\ runs = 1) =>
        \A k \in 0..Len(Document(html)) :
            \A j \in 1..Len(HintsAfter(k)) :
                HintsAfter(k)[j].date # << >> =>
                    items[j].date = HintsAfter(k)[j].date

\* the run has extracted the items of its document
Extracted == wpc \in {"loop", "done", "cancelled", "crashed"} /\ runs = 1

\* the date text of the generated document, when its format is f
TextOf(f) ==
    IF html \in DateDocIds /\ DateCase(DateNo(html)).format = f
    THEN DateCase(DateNo(html)).text
    ELSE << >>

PlaceIs(p) == html \in DateDocIds /\ DateCase(DateNo(html)).place = p

\* six digits read as yy mm dd and as mm dd yy
AsYYMMDD(t) ==
    [y |-> Century(NumVal(SubSeq(t, 1, 2))), m |-> NumVal(SubSeq(t, 3, 4)),
     d |-> NumVal(SubSeq(t, 5, 6))]

AsMMDDYY(t) ==
    [y |-> Century(NumVal(SubSeq(t, 5, 6))), m |-> NumVal(SubSeq(t, 1, 2)),
     d |-> NumVal(SubSeq(t, 3, 4))]

IsDate(r) == ValidYMD(r.y, r.m, r.d)

\* the date the rule gives to six digits, << >> when it discards them
SixDigitRule(t) ==
    IF IsDate(AsYYMMDD(t)) THEN Strftime(AsYYMMDD(t).y, AsYYMMDD(t).m, AsYYMMDD(t).d)
    ELSE IF IsDate(AsMMDDYY(t))
         THEN Strftime(AsMMDDYY(t).y, AsMMDDYY(t).m, AsMMDDYY(t).d)
         ELSE << >>

\* C13: in variant 2 six digits are read as YYMMDD whenever that is a
\* calendar date, as MMDDYY only when YYMMDD is none and MMDDYY is one, and
\* are discarded when neither is; this holds for the hint and for the date of
\* the file name alike, and the item is filed under the date so found, or
\* under the last-modified date when the digits are discarded.
C13_SixDigitRule ==
    (Extracted /\ variant = 2 /\ TextOf("six") # << >>) =>
        LET want == SixDigitRule(TextOf("six"))
        IN  /\ PlaceIs("hint") => items[1].date = want
            /\ PlaceIs("name") =>
                   /\ items[1].date = << >>
                   /\ date_from_name(2, Name(Resolve(items[1].src).path)) = want
            /\ (PlaceIs("hint") \/ PlaceIs("name")) =>
                   \A k \in Found :
                       outcomes[k].date =
                           IF want # << >> THEN want
                           ELSE fallback_date_from_fs(outcomes[k].src)

\* C13 witness: six digits that are a calendar date both ways, with
\* different results, were copied under the YYMMDD reading.
C13_Witness ==
    /\ Extracted /\ variant = 2 /\ TextOf("six") # << >>
    /\ IsDate(AsYYMMDD(TextOf("six"))) /\ IsDate(AsMMDDYY(TextOf("six")))
    /\ AsYYMMDD(TextOf("six")) # AsMMDDYY(TextOf("six"))
    /\ \E k \in Copied : outcomes[k].date = SixDigitRule(TextOf("six"))

\* the file name of base_name that bears the number m, the plain name for 0
NameNo(base_name, m) ==
    IF m = 0 THEN base_name
    ELSE SubSeq(base_name, 1, LastDot(base_name) - 1) \o <<"_">> \o Str(m)
         \o SubSeq(base_name, LastDot(base_name), Len(base_name))

\* destination directory and plain destination name of outcome k
DirOf(k) == SubSeq(outcomes[k].target, 1, 2)

PlainOf(k) == outcomes[k].date \o <<"_">> \o Name(outcomes[k].src)

\* the earlier references of the run with the destination name of outcome k
EarlierSame(k) ==
    {j \in Found : j < k /\ DirOf(j) = DirOf(k) /\ PlainOf(j) = PlainOf(k)}

\* C14 as stated: in a run into an empty output folder the j-th reference
\* to one destination name is written under the plain name for j = 1 and
\* under the name numbered j-1 otherwise.
C14_SuffixIsOrdinal ==
    runs = 1 =>
        \A k \in Copied :
            outcomes[k].target =
                Append(DirOf(k), NameNo(PlainOf(k), Cardinality(EarlierSame(k))))

\* the copy of outcome j left a file, whole or partial: its path holds a file
\* and was not given to a later reference
LeftFile(j) ==
    /\ outcomes[j].target \in DOMAIN outFiles
    /\ \A l \in Found : l > j => outcomes[l].target # outcomes[j].target

\* the earlier references with the destination name of outcome k whose copy
\* left a file
EarlierLeft(k) == {j \in EarlierSame(k) : LeftFile(j)}

\* the earlier references with another destination name that were put under
\* the plain name or a numbered name of outcome k
EarlierOther(k) ==
    {j \in Found :
        /\ j < k /\ j \notin EarlierSame(k)
        /\ \E m \in 0..Len(outcomes) :
              outcomes[j].target = Append(DirOf(k), NameNo(PlainOf(k), m))}

\* C14 amended: in a run into an empty output folder a reference is written
\* under its destination name numbered by the count of earlier references to
\* that name whose copy left a file (the plain name for none), unless a
\* reference to another name was put under one of these names; so the
\* numbers are 1, 2, ..., k-1 in processing order when every copy succeeds.
C14_SuffixCountsFilesLeft ==
    runs = 1 =>
        \A k \in Found :
            EarlierOther(k) = {} =>
                outcomes[k].target =
                    Append(DirOf(k), NameNo(PlainOf(k), Cardinality(EarlierLeft(k))))

\* C14 witness: three references to one destination name were copied, under
\* the plain name and the names numbered 1 and 2.
C14_Witness ==
    /\ runs = 1
    /\ \E k \in Copied :
          /\ Cardinality(EarlierSame(k)) = 2
          /\ EarlierSame(k) \subseteq Copied
          /\ outcomes[k].target = Append(DirOf(k), NameNo(PlainOf(k), 2))
          /\ \A j \in EarlierSame(k) :
                outcomes[j].target =
                    Append(DirOf(k), NameNo(PlainOf(k), Cardinality(EarlierSame(j))))

\* the text has the shape dddd and dddd-dd
ShapeY(s) == Len(s) = 4 /\ AllDigits(s)

ShapeYm(s) ==
    /\ Len(s) = 7
    /\ AllDigits(SubSeq(s, 1, 4)) /\ s[5] = "-" /\ AllDigits(SubSeq(s, 6, 7))

\* the path p holds the copy of a file named name:
\* YYYY / YYYY-MM / YYYY-MM-DD_<name>, the name plain or numbered
InLayout(p, name) ==
    /\ Len(p) = 3
    /\ Len(p[3]) > 11
    /\ ShapeYmd(SubSeq(p[3], 1, 10))
    /\ p[3][11] = "_"
    /\ p[1] = SubSeq(p[3], 1, 4)
    /\ p[2] = SubSeq(p[3], 1, 7)
    /\ \E m \in 0..Cardinality(DOMAIN outFiles) :
          SubSeq(p[3], 12, Len(p[3])) = NameNo(name, m)

\* C15: every file below the output root lies at
\* YYYY/YYYY-MM/YYYY-MM-DD_<original file name>, the name plain or with a
\* number before the extension, YYYY and YYYY-MM being the year and the
\* year-month of the date prefix; every directory below the output root is a
\* YYYY or a YYYY/YYYY-MM of this layout.
C15_OutputLayout ==
    /\ \A p \in DOMAIN outFiles : InLayout(p, Name(outFiles[p].src))
    /\ \A d \in outDirs :
          \/ Len(d) = 1 /\ ShapeY(d[1])
          \/ Len(d) = 2 /\ ShapeYm(d[2]) /\ d[1] = SubSeq(d[2], 1, 4)
    /\ \A p \in DOMAIN outFiles : SubSeq(p, 1, 2) \in outDirs /\ <<p[1]>> \in outDirs

\* C15 witness: a plain and a numbered copy of one file lie in one directory
\* of the layout.
C15_Witness ==
    \E p, q \in DOMAIN outFiles :
        /\ outFiles[p].src = outFiles[q].src
        /\ SubSeq(p, 1, 2) = SubSeq(q, 1, 2)
        /\ SubSeq(p, 1, 2) \in outDirs
        /\ SubSeq(q[3], 12, Len(q[3])) = Name(outFiles[q].src)
        /\ SubSeq(p[3], 12, Len(p[3])) = NameNo(Name(outFiles[p].src), 1)

\* the progress messages of the run that report a successful copy
SuccessEvents == {k \in 1..Len(put) : put[k].kind = "progress" /\ put[k].what = "OK"}

\* C16: in variant 2 a run emits at most 100 progress events for successful
\* copies, whatever the number of items.
C16_AtMostHundredSuccessEvents ==
    variant = 2 => Cardinality(SuccessEvents) <= 100

\* the progress messages of the run that report a failure
FailureEvents ==
    {k \in 1..Len(put) : put[k].kind = "progress" /\ put[k].what # "OK"}

\* C18: in variant 2 every item counted as failed has its own progress
\* event: at each point of a run the failure events are as many as the
\* failed count, one for the index of each failed item.
C18_EveryFailureReported ==
    (variant = 2 /\ wpc \in {"loop", "done"}) =>
        /\ Cardinality(FailureEvents) = fail
        /\ \A j \in 1..Len(outcomes) :
              outcomes[j].kind # "ok" =>
                  \E k \in FailureEvents : put[k].n = outcomes[j].idx

\* the hint the extractor attaches when the text of the date container is t
HintOf(t) ==
    ParseItems(2, <<StartMedia("img", DotSlash \o IMG_001)>> \o TextLine(t))[1].date

\* the two normalizations of variant 2 leave the text d as it is
Unchanged(d) ==
    /\ HintOf(d) = d
    /\ date_from_name(2, d) = d
    /\ date_from_name(2, d \o JPG) = d

\* C17: the normalization of variant 2 is idempotent: every hint it
\* attached and every file-name date it returned, from whichever accepted
\* format, and every canonical date an item was filed under, is returned
\* unchanged when it is normalized again as a hint text or as a file name.
C17_NormalizationIdempotent ==
    (Extracted /\ variant = 2) =>
        /\ \A j \in 1..Len(items) :
              /\ items[j].date # << >> => Unchanged(items[j].date)
              /\ date_from_name(2, Name(Resolve(items[j].src).path)) # << >> =>
                     Unchanged(date_from_name(2, Name(Resolve(items[j].src).path)))
        /\ \A k \in Found : IsCanonical(outcomes[k].date) /\ Unchanged(outcomes[k].date)

\* C17 witness: a hint normalized from a text of another format
\* (MM-DD-YYYY) is returned unchanged, and the item was filed under it.
C17_Witness ==
    /\ Extracted /\ variant = 2
    /\ TextOf("mdy") # << >> /\ PlaceIs("hint")
    /\ items[1].date # << >>
    /\ items[1].date # TextOf("mdy")
    /\ Unchanged(items[1].date)
    /\ \E k \in Copied : outcomes[k].date = items[1].date

\* the divs that are open after the first k events of doc: their number, and
\* the nesting level of the open text-line container (0 when there is none)
RECURSIVE DivsOpen(_, _)
DivsOpen(doc, k) ==
    IF k = 0 THEN [depth |-> 0, container |-> 0]
    ELSE LET before == DivsOpen(doc, k - 1)
             ev == doc[k]
         IN  IF ev.t = "start" /\ ev.tag = "div"
             THEN [depth |-> before.depth + 1,
                   container |-> IF ev.textline /\ before.container = 0
                                 THEN before.depth + 1 ELSE before.container]
             ELSE IF ev.t = "end" /\ ev.tag = "div" /\ before.depth > 0
             THEN [depth |-> before.depth - 1,
                   container |-> IF before.container = before.depth
                                 THEN 0 ELSE before.container]
             ELSE before

\* the date a text carries for the extractor of variant v
DateIn(v, text) == IF v = 1 THEN Search(PatYmd, text) ELSE FirstDate(text, 1)

\* C19: the extractor is in capture mode exactly for the text between the
\* start tag of a text-line container and the closing tag of that container:
\* at every text node capture mode is on if and only if a text-line container
\* is open, also after an inner div was opened and closed; so a date in the
\* container is attached to the preceding media reference and a text outside
\* changes no hint.
C19_CaptureExactlyInContainer ==
    (Extracted /\ html \in ParseDocIds) =>
        \A k \in 1..Len(Document(html)) :
            Document(html)[k].t = "data" =>
                LET before == FeedUpTo(variant, Document(html), k - 1)
                    after == FeedUpTo(variant, Document(html), k)
                    inside == DivsOpen(Document(html), k - 1).container > 0
                    date == DateIn(variant, Document(html)[k].data)
                IN  /\ before.in_textline = inside
                    /\ ~inside => after.items = before.items
                    /\ (inside /\ before.last # 0 /\ date # << >>) =>
                           after.items[before.last].date = date

\* C20: at most one worker executes at any time, under every interleaving
\* of start, cancel, pump and worker steps: the start control is enabled
\* only while no worker is alive, so a run is started only then; the new run
\* begins with the cancellation flag cleared; the flag is set only while the
\* worker of the current run is alive, and a worker stops as cancelled only
\* with the flag set, so a cancel of an earlier run never stops a later one.
C20_SingleWorker ==
    /\ [](btn_start = "normal" => wpc \notin Alive)
    /\ [][runs' = runs + 1 =>
             /\ wpc \notin Alive
             /\ wpc' = "read"
             /\ cancel_flag' = FALSE]_vars
    /\ [][(cancel_flag' /\ ~cancel_flag) => (wpc \in Alive /\ runs' = runs)]_vars
    /\ [][(wpc' = "cancelled" /\ wpc # "cancelled") => cancel_flag]_vars

\* C20 witness: a second run is executing its item loop with the flag clear
\* and the start control disabled, on top of what the first run wrote.
C20_Witness ==
    /\ runs = 2
    /\ wpc = "loop" /\ i >= 2
    /\ ~cancel_flag
    /\ btn_start = "disabled"
    /\ \E p \in DOMAIN outFiles : \A k \in Copied : outcomes[k].target # p

\* the messages of the run the window has consumed so far
Consumed == SubSeq(put, 1, Len(put) - Len(ui_q))

ProgressAt(msgs) == {k \in 1..Len(msgs) : msgs[k].kind = "progress"}

\* the order the claim asks of a sequence of messages of one run
WellOrdered(msgs) ==
    /\ \A k \in 1..Len(msgs) : msgs[k].kind = "meta" => k = 1
    /\ \A k \in ProgressAt(msgs) :
          /\ msgs[1].kind = "meta"
          /\ msgs[k].n \in 1..msgs[1].n
    /\ \A j, k \in ProgressAt(msgs) : j < k => msgs[j].n < msgs[k].n
    /\ \A k \in 1..Len(msgs) : Terminal(msgs[k]) => k = Len(msgs)

\* C21: within one run the window consumes the messages in the order the
\* worker put them: the queue is what the worker put and the window has not
\* consumed yet, each pump step takes its oldest message; meta, carrying the
\* number of items, comes before every progress message, the indices of the
\* progress messages increase strictly and lie in 1..total, and nothing
\* follows the terminal message, in what was put and so in what was consumed.
C21_ConsumedInOrder ==
    /\ [](/\ Len(ui_q) <= Len(put)
          /\ ui_q = SubSeq(put, Len(put) - Len(ui_q) + 1, Len(put))
          /\ WellOrdered(put)
          /\ WellOrdered(Consumed)
          /\ (put # << >> /\ put[1].kind = "meta") => put[1].n = Len(items))
    /\ [][Len(ui_q') < Len(ui_q) =>
             /\ put' = put
             /\ Consumed' = Append(Consumed, Head(ui_q))
             /\ Head(ui_q).kind = "progress" => pb_value' = Head(ui_q).n]_vars

\* C21 witness: the window has consumed a whole run: meta, two or more
\* progress messages and, last, done.
C21_Witness ==
    /\ wpc = "done" /\ ui_q = << >>
    /\ Cardinality(ProgressAt(Consumed)) >= 2
    /\ Consumed[1].kind = "meta"
    /\ Consumed[Len(Consumed)].kind = "done"
    /\ pb_value = Consumed[1].n

\* the place of the last progress message of the run, 0 when there is none
LastProgress ==
    IF ProgressAt(put) = {} THEN 0
    ELSE CHOOSE k \in ProgressAt(put) : \A j \in ProgressAt(put) : j <= k

\* C22: when a run of variant 2 has ended with done, the last progress
\* message put before it carries the index of the last item, the total,
\* whatever the interval and whether the last item was copied, was missing
\* or failed to copy; once the window has consumed the messages the progress
\* bar stands at the total, its maximum.
C22_LastProgressIsTotal ==
    (variant = 2 /\ wpc = "done") =>
        /\ put[Len(put)].kind = "done"
        /\ LastProgress = Len(put) - 1
        /\ put[LastProgress].n = Len(items)
        /\ put[1].n = Len(items)
        /\ ui_q = << >> => (pb_value = Len(items) /\ pb_max = Len(items))

\* C22 witness: a run over more than 200 items, whose interval is 2 and
\* whose last index is odd, ended with done after its last item was found
\* missing, and the window, having consumed the messages, shows the total.
C22_Witness ==
    /\ variant = 2 /\ wpc = "done" /\ ui_q = << >>
    /\ Len(items) > 200
    /\ Len(items) % UpdateInterval(Len(items)) # 0
    /\ outcomes[Len(outcomes)].kind = "missing"
    /\ pb_value = Len(items)

====
